---- MODULE Spec2Model ----
(***************************************************************************)
(* Model of georgesmiley-ut/datascienceproject1.                           *)
(*                                                                         *)
(*   build_power_brokers.py   main(): two igraph views of one node table   *)
(*                            (all edges / edges whose type is not road),  *)
(*                            Graph.closeness(mode, normalized=True) on    *)
(*                            each, two score columns written to a CSV.    *)
(*   classify_sites_wealth.py call_openai(): the retry loop around one     *)
(*                            HTTP request; main(): the row loop.          *)
(*                                                                         *)
(* Three specifications share the module: Spec (build_power_brokers.main), *)
(* SpecCall (call_openai alone, any max_retries) and SpecClassify (the     *)
(* classifier's main with call_openai inlined at its default max_retries). *)
(*                                                                         *)
(* A double is modelled as a reduced fraction <<num, den>> with den > 0;   *)
(* 0.0/0.0 is NaN == <<0, 0>> and x/0.0 with x > 0 is Inf == <<1, 0>>.     *)
(* Vertex indices are igraph's index + 1 (TLA+ sequences start at 1).      *)
(***************************************************************************)
EXTENDS Integers, Sequences, FiniteSets, TLC

VARIABLES
    \* build_power_brokers.main
    pc, nodes_df, edges_df, mode, g_all, closeness_all,
    edges_no_road, g_no_road, closeness_no_road, out_csv,
    \* call_openai
    cpc, max_retries, attempt, sent, last, slept, cres,
    \* classify_sites_wealth.main
    mpc, in_rows, limit, idx, label, calls, hist, f_out

gvars == <<pc, nodes_df, edges_df, mode, g_all, closeness_all,
           edges_no_road, g_no_road, closeness_no_road, out_csv>>
cvars == <<cpc, max_retries, attempt, sent, last, slept, cres>>
mvars == <<mpc, in_rows, limit, idx, label, calls, hist, f_out>>
vars == <<gvars, cvars, mvars>>

-----------------------------------------------------------------------------
(* Bounds of the model *)

\* the identifiers a node table or an edge table may mention
Ids == {"a", "b", "c"}
\* the values of the edge table's type column
Types == {"road", "rail"}
\* argparse choices of --mode
Modes == {"out", "in", "all"}
\* rows of the edge table
MaxEdges == 2

-----------------------------------------------------------------------------
(* Doubles *)

RECURSIVE GCD(_, _)
GCD(m, n) == IF n = 0 THEN m ELSE GCD(n, m % n)

NaN == <<0, 0>>
Inf == <<1, 0>>
Zero == <<0, 1>>
One == <<1, 1>>

\* Div with a guard that answers 0.0 for a zero divisor
DivZeroGuard(n, d) ==
    IF d = 0 THEN Zero
    ELSE LET g == GCD(n, d) IN <<n \div g, d \div g>>

\* n / d on doubles holding the non-negative integers n and d
Div(n, d) ==
    IF d = 0 THEN (IF n = 0 THEN NaN ELSE Inf)
    ELSE LET g == GCD(n, d) IN <<n \div g, d \div g>>

IsNaN(x) == x = NaN
\* 0.0 <= x <= 1.0 (false of NaN, as every IEEE comparison with NaN is)
InUnit(x) == x[2] > 0 /\ 0 <= x[1] /\ x[1] <= x[2]

-----------------------------------------------------------------------------
(* Inputs of build_power_brokers.main *)

SeqsUpTo(S, n) == UNION {[1..k -> S] : k \in 0..n}

\* the id column of the largest node table; the ids are interchangeable, so
\* one row order stands for all of them, and it is not the alphabetical one
NodeOrder == <<"b", "a", "c">>

\* node tables: the id column, ids unique (spec 3, 6), from no row to all
NodeTables == {SubSeq(NodeOrder, 1, n) : n \in 0..Len(NodeOrder)}

EdgeRows == [source : Ids, target : Ids, type : Types]
EdgeTables == SeqsUpTo(EdgeRows, MaxEdges)

-----------------------------------------------------------------------------
(* build_graph *)

\* the value of g while no graph has been built
NoGraph == [ok |-> FALSE, vs |-> <<>>, es |-> <<>>]

Known(names, id) == \E i \in DOMAIN names : names[i] = id

\* igraph's name lookup: the index of the vertex named id
IndexOf(names, id) == CHOOSE i \in DOMAIN names : names[i] = id

\* add_edges that skips the rows naming no vertex instead of raising
AddEdgesDropUnknown(names, rows) ==
    LET kept == SelectSeq(rows, LAMBDA r : Known(names, r.source) /\ Known(names, r.target))
    IN [ok |-> TRUE, vs |-> names,
        es |-> [i \in DOMAIN kept |->
                  <<IndexOf(names, kept[i].source),
                    IndexOf(names, kept[i].target)>>]]

\* Graph.add_edges over a list of name pairs: ValueError (no such vertex)
\* when a name is not a vertex, and no edge is added then
AddEdges(names, rows) ==
    IF \A i \in DOMAIN rows :
           Known(names, rows[i].source) /\ Known(names, rows[i].target)
    THEN [ok |-> TRUE, vs |-> names,
          es |-> [i \in DOMAIN rows |->
                    <<IndexOf(names, rows[i].source),
                      IndexOf(names, rows[i].target)>>]]
    ELSE NoGraph

\* build_graph that adds the vertices in the reverse of the node-table order
build_graph_reversed(nodes, rows) ==
    AddEdges([i \in DOMAIN nodes |-> nodes[Len(nodes) + 1 - i]], rows)

\* build_graph(nodes_df, edges_df): vertices in node-table order, then edges
build_graph(nodes, rows) == AddEdges(nodes, rows)

-----------------------------------------------------------------------------
(* Graph.closeness(mode, normalized=True), as igraph computes it since its  *)
(* 0.9 core: one unweighted breadth-first search per vertex along the       *)
(* adjacency lists of the mode; the score is the number of vertices reached *)
(* divided by the sum of their distances (the inverse of the mean distance  *)
(* to the vertices reached), a floating-point division with no guard, so a  *)
(* vertex that reaches nothing gets 0.0/0.0.                                *)

\* Neis with the mode ignored: always the out-neighbours
NeisIgnoreMode(g, v, m) ==
    LET F[i \in 0..Len(g.es)] ==
          IF i = 0 THEN <<>>
          ELSE IF g.es[i][1] = v THEN Append(F[i - 1], g.es[i][2]) ELSE F[i - 1]
    IN F[Len(g.es)]

\* the adjacency list of v under mode: one entry per incident edge, loops
\* and multiple edges kept
Neis(g, v, m) ==
    LET F[i \in 0..Len(g.es)] ==
          IF i = 0 THEN <<>>
          ELSE LET e == g.es[i]
                   o == IF m \in {"out", "all"} /\ e[1] = v
                        THEN <<e[2]>> ELSE <<>>
                   n == IF m \in {"in", "all"} /\ e[2] = v
                        THEN <<e[1]>> ELSE <<>>
               IN F[i - 1] \o o \o n
    IN F[Len(g.es)]

\* the loop over act's neighbours: each one not yet counted is marked and
\* queued at distance actdist + 1
RECURSIVE Push(_, _, _, _)
Push(neis, q, counted, actdist) ==
    IF neis = <<>> THEN [q |-> q, counted |-> counted]
    ELSE IF Head(neis) \in counted
         THEN Push(Tail(neis), q, counted, actdist)
         ELSE Push(Tail(neis), Append(q, <<Head(neis), actdist + 1>>),
                   counted \cup {Head(neis)}, actdist)

\* the breadth-first search from one source: the sum of the distances of the
\* vertices reached and their number, the source included
RECURSIVE BFS(_, _, _, _, _, _)
BFS(g, m, q, counted, sum, reached) ==
    IF q = <<>> THEN [sum |-> sum, reached |-> reached]
    ELSE LET act == Head(q)[1]
             actdist == Head(q)[2]
             p == Push(Neis(g, act, m), Tail(q), counted, actdist)
         IN BFS(g, m, p.q, p.counted, sum + actdist, reached + 1)

\* Score with normalized=False: the inverse of the sum of distances
ScoreUnnormalized(g, m, v) ==
    LET r == BFS(g, m, <<<<v, 0>>>>, {v}, 0, 0)
    IN Div(IF r.reached > 1 THEN 1 ELSE 0, r.sum)

\* Score as the mean distance instead of its inverse
ScoreMeanDistance(g, m, v) ==
    LET r == BFS(g, m, <<<<v, 0>>>>, {v}, 0, 0)
    IN Div(r.sum, r.reached - 1)

\* Score with the source not marked as counted before the search starts
ScoreStartUnmarked(g, m, v) ==
    LET r == BFS(g, m, <<<<v, 0>>>>, {}, 0, 0)
    IN Div(r.reached - 1, r.sum)

\* the score of one vertex: (nodes_reached - 1) / sum of distances
Score(g, m, v) ==
    LET r == BFS(g, m, <<<<v, 0>>>>, {v}, 0, 0)
    IN Div(r.reached - 1, r.sum)

\* directed_closeness(g, mode): one score per vertex, in vertex order
directed_closeness(g, m) == [v \in DOMAIN g.vs |-> Score(g, m, v)]

-----------------------------------------------------------------------------
(* build_power_brokers.main *)

\* the filter inverted: only the road edges kept
NoRoadInverted(rows) == SelectSeq(rows, LAMBDA r : r.type = "road")

\* edges_df[edges_df["type"] != "road"]
NoRoad(rows) == SelectSeq(rows, LAMBDA r : r.type # "road")

\* out_df: the node rows with the two score columns, by row position
Assemble(nodes, c_all, c_no_road) ==
    [i \in DOMAIN nodes |->
        [id |-> nodes[i],
         closeness_all_edges |-> c_all[i],
         closeness_no_road_edges |-> c_no_road[i]]]

NotWritten == [written |-> FALSE, table |-> <<>>]

GIdle ==
    /\ pc = "idle" /\ nodes_df = <<>> /\ edges_df = <<>> /\ mode = "out"
    /\ g_all = NoGraph /\ closeness_all = <<>> /\ edges_no_road = <<>>
    /\ g_no_road = NoGraph /\ closeness_no_road = <<>> /\ out_csv = NotWritten

GInit ==
    /\ pc = "start"
    /\ nodes_df \in NodeTables
    /\ edges_df \in EdgeTables
    /\ mode \in Modes
    /\ g_all = NoGraph /\ closeness_all = <<>> /\ edges_no_road = <<>>
    /\ g_no_road = NoGraph /\ closeness_no_road = <<>> /\ out_csv = NotWritten

\* line 60
BuildAll ==
    /\ pc = "start"
    /\ g_all' = build_graph(nodes_df, edges_df)
    /\ pc' = IF g_all'.ok THEN "built_all" ELSE "error"
    /\ UNCHANGED <<nodes_df, edges_df, mode, closeness_all, edges_no_road,
                   g_no_road, closeness_no_road, out_csv, cvars, mvars>>

\* line 61
ClosenessAll ==
    /\ pc = "built_all"
    /\ closeness_all' = directed_closeness(g_all, mode)
    /\ pc' = "scored_all"
    /\ UNCHANGED <<nodes_df, edges_df, mode, g_all, edges_no_road,
                   g_no_road, closeness_no_road, out_csv, cvars, mvars>>

\* lines 64-65
BuildNoRoad ==
    /\ pc = "scored_all"
    /\ edges_no_road' = NoRoad(edges_df)
    /\ g_no_road' = build_graph(nodes_df, edges_no_road')
    /\ pc' = IF g_no_road'.ok THEN "built_no_road" ELSE "error"
    /\ UNCHANGED <<nodes_df, edges_df, mode, g_all, closeness_all,
                   closeness_no_road, out_csv, cvars, mvars>>

\* line 66
ClosenessNoRoad ==
    /\ pc = "built_no_road"
    /\ closeness_no_road' = directed_closeness(g_no_road, mode)
    /\ pc' = "scored_no_road"
    /\ UNCHANGED <<nodes_df, edges_df, mode, g_all, closeness_all,
                   edges_no_road, g_no_road, out_csv, cvars, mvars>>

\* lines 68-72
WriteOut ==
    /\ pc = "scored_no_road"
    /\ out_csv' = [written |-> TRUE,
                   table |-> Assemble(nodes_df, closeness_all, closeness_no_road)]
    /\ pc' = "done"
    /\ UNCHANGED <<nodes_df, edges_df, mode, g_all, closeness_all,
                   edges_no_road, g_no_road, closeness_no_road, cvars, mvars>>


-----------------------------------------------------------------------------
(* classify_sites_wealth.call_openai *)

\* upper end of the max_retries values call_openai is run with on its own
MaxRetries == 4
\* the default of the max_retries parameter, which main relies on
DefaultMaxRetries == 5

ALLOWED_LABELS == {"Wealthy", "Medium Wealthy", "Poor"}
\* what extract_output_text may return: a label, or any other text
Texts == ALLOWED_LABELS \cup {"Unknown", "wealthy"}
\* the HTTP error statuses of a request
Statuses == {429, 500, 502, 503, 504, 401}

\* the outcome of one request
NoOutcome == [kind |-> "none", text |-> "", status |-> 0]
RuntimeError == [kind |-> "runtime", text |-> "", status |-> 0]
Ok(t) == [kind |-> "ok", text |-> t, status |-> 200]
HTTPError(st) == [kind |-> "http", text |-> "", status |-> st]
URLError == [kind |-> "url", text |-> "", status |-> 0]
\* an exception neither except clause catches (a body that is not JSON, a
\* timeout while reading)
OtherError == [kind |-> "other", text |-> "", status |-> 0]

NoResult == [kind |-> "none", text |-> "", err |-> NoOutcome]
Returned(t) == [kind |-> "return", text |-> t, err |-> NoOutcome]
Raised(e) == [kind |-> "raise", text |-> "", err |-> e]

\* line 79: status in {429, 500, 502, 503, 504}
RetryStatus(st) == st \in {429, 500, 502, 503, 504}
\* the retry test off by one: attempt < max_retries
MayRetryOffByOne(a, mr) == a < mr

\* lines 79, 84: attempt < max_retries - 1
MayRetry(a, mr) == a < mr - 1

RECURSIVE Pow2(_)
Pow2(n) == IF n = 0 THEN 1 ELSE 2 * Pow2(n - 1)

CIdle ==
    /\ cpc = "idle" /\ max_retries = 0 /\ attempt = 0 /\ sent = 0
    /\ last = NoOutcome /\ slept = <<>> /\ cres = NoResult

\* call_openai entered with max_retries = mr
CStart(mr) ==
    /\ cpc' = "loop" /\ max_retries' = mr /\ attempt' = 0 /\ sent' = 0
    /\ last' = NoOutcome /\ slept' = <<>> /\ cres' = NoResult

CInit ==
    /\ cpc = "loop" /\ max_retries \in 0..MaxRetries /\ attempt = 0 /\ sent = 0
    /\ last = NoOutcome /\ slept = <<>> /\ cres = NoResult

\* time.sleep(2**attempt); continue
SleepAndContinue ==
    /\ slept' = Append(slept, Pow2(attempt))
    /\ attempt' = attempt + 1
    /\ UNCHANGED <<cpc, cres>>

\* raise
Reraise ==
    /\ cpc' = "raised"
    /\ cres' = Raised(last')
    /\ UNCHANGED <<attempt, slept>>

\* lines 72-76: the request is answered and its text returned
RequestOk ==
    /\ cpc = "loop" /\ attempt < max_retries
    /\ \E t \in Texts :
        /\ last' = Ok(t)
        /\ cres' = Returned(t)
    /\ sent' = sent + 1
    /\ cpc' = "returned"
    /\ UNCHANGED <<max_retries, attempt, slept, gvars, mvars>>

\* lines 72-74, 77-82
RequestHTTPError ==
    /\ cpc = "loop" /\ attempt < max_retries
    /\ \E st \in Statuses :
        /\ last' = HTTPError(st)
        /\ IF RetryStatus(st) /\ MayRetry(attempt, max_retries)
           THEN SleepAndContinue
           ELSE Reraise
    /\ sent' = sent + 1
    /\ UNCHANGED <<max_retries, gvars, mvars>>

\* lines 72-74, 83-87
RequestURLError ==
    /\ cpc = "loop" /\ attempt < max_retries
    /\ last' = URLError
    /\ IF MayRetry(attempt, max_retries)
       THEN SleepAndContinue
       ELSE Reraise
    /\ sent' = sent + 1
    /\ UNCHANGED <<max_retries, gvars, mvars>>

\* lines 72-76: an exception no except clause catches leaves the function
RequestOtherError ==
    /\ cpc = "loop" /\ attempt < max_retries
    /\ last' = OtherError
    /\ Reraise
    /\ sent' = sent + 1
    /\ UNCHANGED <<max_retries, gvars, mvars>>

\* lines 71, 89: range(max_retries) is exhausted
LoopExhausted ==
    /\ cpc = "loop" /\ attempt >= max_retries
    /\ cpc' = "raised"
    /\ cres' = Raised(RuntimeError)
    /\ UNCHANGED <<max_retries, attempt, sent, last, slept, gvars, mvars>>

-----------------------------------------------------------------------------
(* classify_sites_wealth.main: the row loop *)

\* rows of the input CSV
MaxRows == 2

NoLimit == [given |-> FALSE, n |-> 0]
Limit(k) == [given |-> TRUE, n |-> k]
\* --limit: absent, or any int
Limits == {NoLimit} \cup {Limit(k) : k \in -1..(MaxRows + 1)}

MIdle ==
    /\ mpc = "idle" /\ in_rows = <<>> /\ limit = NoLimit /\ idx = 0
    /\ label = "" /\ calls = 0 /\ hist = <<>> /\ f_out = <<>>

\* the input rows are told apart by their position in the file
MInit ==
    /\ mpc = "loop"
    /\ \E n \in 0..MaxRows : in_rows = [i \in 1..n |-> i]
    /\ limit \in Limits
    /\ idx = 0 /\ label = "" /\ calls = 0 /\ hist = <<>> /\ f_out = <<>>

\* line 159-160
Normalise(l) == IF l \notin ALLOWED_LABELS THEN "Unknown" ELSE l

\* the limit test off by one: idx > limit
LimitOffByOne(i, lim) == lim.given /\ i > lim.n

\* line 148
LimitReached(i, lim) == lim.given /\ i >= lim.n

\* lines 147-151: the next row, if any and below the limit, and its first call
RowNext ==
    /\ mpc = "loop"
    /\ IF idx >= Len(in_rows) \/ LimitReached(idx, limit)
       THEN /\ mpc' = "done"
            /\ UNCHANGED <<calls, hist, cvars>>
       ELSE /\ mpc' = "call1"
            /\ calls' = 1
            /\ hist' = Append(hist, <<>>)
            /\ CStart(DefaultMaxRetries)
    /\ UNCHANGED <<in_rows, limit, idx, label, f_out, gvars>>

\* lines 151-158: the first label; a second call when it is not allowed
Return1 ==
    /\ mpc = "call1" /\ cpc = "returned"
    /\ label' = cres.text
    /\ hist' = [hist EXCEPT ![Len(hist)] = Append(@, cres.text)]
    /\ IF label' \notin ALLOWED_LABELS
       THEN /\ mpc' = "call2"
            /\ calls' = calls + 1
            /\ CStart(DefaultMaxRetries)
       ELSE /\ mpc' = "write"
            /\ UNCHANGED <<calls, cvars>>
    /\ UNCHANGED <<in_rows, limit, idx, f_out, gvars>>

\* lines 154-158: the second label
Return2 ==
    /\ mpc = "call2" /\ cpc = "returned"
    /\ label' = cres.text
    /\ hist' = [hist EXCEPT ![Len(hist)] = Append(@, cres.text)]
    /\ mpc' = "write"
    /\ UNCHANGED <<in_rows, limit, idx, calls, f_out, gvars, cvars>>

\* lines 159-162
WriteRow ==
    /\ mpc = "write"
    /\ label' = Normalise(label)
    /\ f_out' = Append(f_out, [row |-> in_rows[idx + 1], wealth_class |-> label'])
    /\ idx' = idx + 1
    /\ mpc' = "loop"
    /\ UNCHANGED <<in_rows, limit, calls, hist, gvars, cvars>>

\* lines 151, 154: an exception of call_openai leaves main
Abort ==
    /\ mpc \in {"call1", "call2"} /\ cpc = "raised"
    /\ mpc' = "aborted"
    /\ UNCHANGED <<in_rows, limit, idx, label, calls, hist, f_out, gvars, cvars>>

-----------------------------------------------------------------------------
(* Specifications *)

Init == GInit /\ CIdle /\ MIdle

Next ==
    \/ BuildAll
    \/ ClosenessAll
    \/ BuildNoRoad
    \/ ClosenessNoRoad
    \/ WriteOut

Spec == Init /\ [][Next]_vars

InitCall == GIdle /\ CInit /\ MIdle

NextCall ==
    \/ RequestOk
    \/ RequestHTTPError
    \/ RequestURLError
    \/ RequestOtherError
    \/ LoopExhausted

\* call_openai runs on: every request ends (timeout=60) and every sleep ends
SpecCall == InitCall /\ [][NextCall]_vars /\ WF_vars(NextCall)

InitClassify == GIdle /\ CIdle /\ MInit

\* LoopExhausted is no step of main: range(5) is never exhausted by a continue
NextClassify ==
    \/ RowNext
    \/ RequestOk
    \/ RequestHTTPError
    \/ RequestURLError
    \/ RequestOtherError
    \/ Return1
    \/ Return2
    \/ WriteRow
    \/ Abort

SpecClassify == InitClassify /\ [][NextClassify]_vars

-----------------------------------------------------------------------------
(* The closeness of spec 4.4, stated on identifiers and edge rows, without  *)
(* the index space or the queue of the model above                          *)

\* the rows of a view: every row, or the rows whose type is not road
ViewRows(rs, view) ==
    IF view = "all" THEN rs
    ELSE SelectSeq(rs, LAMBDA r : r.type # "road")

\* the identifiers one traversal step away from x under mode m
StepFrom(rs, m, x) ==
    {y \in Ids : \E i \in DOMAIN rs :
        \/ m \in {"out", "all"} /\ rs[i].source = x /\ rs[i].target = y
        \/ m \in {"in", "all"} /\ rs[i].target = x /\ rs[i].source = y}

\* the layers of a breadth-first sweep from x: frontier holds the identifiers
\* at distance k, seen those at distance <= k; the result counts the
\* identifiers beyond the frontier and sums their distances
RECURSIVE Layers(_, _, _, _, _)
Layers(rs, m, frontier, seen, k) ==
    LET next == UNION {StepFrom(rs, m, y) : y \in frontier} \ seen
    IN IF next = {} THEN [n |-> 0, sum |-> 0]
       ELSE LET r == Layers(rs, m, next, seen \cup next, k + 1)
            IN [n |-> Cardinality(next) + r.n,
                sum |-> (k + 1) * Cardinality(next) + r.sum]

\* |R(x)|: how many identifiers x reaches, x excluded
ReachCount(rs, m, x) == Layers(rs, m, {x}, {x}, 0).n

\* the sum over u in R(x) of the hop distance d(x, u)
SumDist(rs, m, x) == Layers(rs, m, {x}, {x}, 0).sum

\* the view just scored, with its rows and its scores (the scores are not
\* assigned again before they are written)
Scored ==
    IF pc = "scored_all"
    THEN {[rs |-> ViewRows(edges_df, "all"), c |-> closeness_all]}
    ELSE IF pc = "scored_no_road"
    THEN {[rs |-> ViewRows(edges_df, "no_road"), c |-> closeness_no_road]}
    ELSE {}

\* a row of the edge table names an identifier the node table lacks
HasUnknown ==
    \E i \in DOMAIN edges_df :
        ~Known(nodes_df, edges_df[i].source) \/ ~Known(nodes_df, edges_df[i].target)

\* the whole of main as one function of its inputs
MainOutput(nodes, rs, m) ==
    Assemble(nodes,
             directed_closeness(build_graph(nodes, rs), m),
             directed_closeness(build_graph(nodes, NoRoad(rs)), m))

Perms(n) == {p \in [1..n -> 1..n] : \A i, j \in 1..n : p[i] = p[j] => i = j}

-----------------------------------------------------------------------------
(* Claims about build_power_brokers (specification Spec) *)

\* C1 as stated: a node v that reaches something scores
\* (|R(v)| / (N - 1)) * (|R(v)| / sum of d(v, u)).
C1_ScoreIsReachWeighted ==
    \A s \in Scored : \A i \in DOMAIN nodes_df :
        LET R == ReachCount(s.rs, mode, nodes_df[i])
        IN R > 0 =>
            s.c[i] = Div(R * R, (Len(nodes_df) - 1) * SumDist(s.rs, mode, nodes_df[i]))

\* C1 amended: a node v that reaches something scores |R(v)| / sum of
\* d(v, u), the inverse of its mean distance to the nodes it reaches, with no
\* factor |R(v)| / (N - 1).
C1_ScoreIsInverseMeanDistance ==
    \A s \in Scored : \A i \in DOMAIN nodes_df :
        LET R == ReachCount(s.rs, mode, nodes_df[i])
        IN R > 0 => s.c[i] = Div(R, SumDist(s.rs, mode, nodes_df[i]))

\* a node that reaches two others, one of them at distance 2
C1_Witness ==
    /\ pc = "scored_all"
    /\ \E i \in DOMAIN nodes_df :
        /\ ReachCount(edges_df, mode, nodes_df[i]) = 2
        /\ SumDist(edges_df, mode, nodes_df[i]) = 3
        /\ closeness_all[i] = <<2, 3>>

\* C2 as stated: a node that reaches no other node scores 0.0.
C2_UnreachingScoresZero ==
    \A s \in Scored : \A i \in DOMAIN nodes_df :
        ReachCount(s.rs, mode, nodes_df[i]) = 0 => s.c[i] = Zero

\* C2 amended: a node that reaches no other node under the mode scores NaN
\* (0.0 / 0.0), in a single-node graph too; it never scores 0.0.
C2_UnreachingScoresNaN ==
    \A s \in Scored : \A i \in DOMAIN nodes_df :
        ReachCount(s.rs, mode, nodes_df[i]) = 0 => IsNaN(s.c[i])

\* under mode=out, a node with an incoming edge and nothing to reach
C2_Witness ==
    /\ pc = "scored_all" /\ mode = "out" /\ Len(nodes_df) >= 2
    /\ \E i \in DOMAIN nodes_df :
        /\ ReachCount(edges_df, mode, nodes_df[i]) = 0
        /\ \E k \in DOMAIN edges_df :
            edges_df[k].target = nodes_df[i] /\ edges_df[k].source # nodes_df[i]
        /\ IsNaN(closeness_all[i])

\* C3 as stated: every score of both output columns lies in [0.0, 1.0].
C3_ScoresInUnitInterval ==
    pc = "done" =>
        \A i \in DOMAIN out_csv.table :
            /\ InUnit(out_csv.table[i].closeness_all_edges)
            /\ InUnit(out_csv.table[i].closeness_no_road_edges)

\* C3 amended: every score of both output columns is NaN or a number s with
\* 0.0 < s <= 1.0.
C3_ScoresNaNOrInUnitInterval ==
    pc = "done" =>
        \A i \in DOMAIN out_csv.table :
            \A x \in {out_csv.table[i].closeness_all_edges,
                      out_csv.table[i].closeness_no_road_edges} :
                IsNaN(x) \/ (InUnit(x) /\ x[1] > 0)

\* an output table with a NaN and with a score strictly between 0 and 1
C3_Witness ==
    /\ pc = "done"
    /\ \E i, j \in DOMAIN out_csv.table :
        /\ IsNaN(out_csv.table[i].closeness_no_road_edges)
        /\ out_csv.table[j].closeness_all_edges = <<2, 3>>

\* the two-node graph a -> b
TwoNodeGraph ==
    /\ pc \in {"scored_all", "built_no_road", "scored_no_road", "done"}
    /\ nodes_df = <<"b", "a">>
    /\ Len(edges_df) = 1
    /\ edges_df[1].source = "a" /\ edges_df[1].target = "b"

ScoreOf(id) == closeness_all[IndexOf(nodes_df, id)]

\* C4 as stated: on a -> b, mode=out gives closeness(a) = 1.0 and
\* closeness(b) = 0.0, and mode=in gives the two values swapped.
C4_TwoNodesOneAndZero ==
    TwoNodeGraph =>
        /\ mode = "out" => ScoreOf("a") = One /\ ScoreOf("b") = Zero
        /\ mode = "in" => ScoreOf("a") = Zero /\ ScoreOf("b") = One

\* C4 amended: on a -> b, mode=out gives closeness(a) = 1.0 and
\* closeness(b) = NaN, and mode=in gives closeness(a) = NaN and
\* closeness(b) = 1.0.
C4_TwoNodesOneAndNaN ==
    TwoNodeGraph =>
        /\ mode = "out" => ScoreOf("a") = One /\ ScoreOf("b") = NaN
        /\ mode = "in" => ScoreOf("a") = NaN /\ ScoreOf("b") = One

\* a -> b scored under mode=in, b in the first row
C4_Witness ==
    /\ TwoNodeGraph /\ mode = "in" /\ nodes_df = <<"b", "a">>
    /\ closeness_all = <<One, NaN>>

\* C5: an edge row naming an identifier the node table lacks aborts the run
\* at the first graph build: nothing is written, no graph exists with the
\* row dropped, and a graph that exists has the node table's vertices and
\* one edge per row.
C5_UnknownIdentifierAborts ==
    /\ HasUnknown =>
        /\ pc \in {"start", "error"}
        /\ ~out_csv.written
        /\ ~g_all.ok /\ ~g_no_road.ok
    /\ g_all.ok => g_all.vs = nodes_df /\ Len(g_all.es) = Len(edges_df)
    /\ g_no_road.ok => g_no_road.vs = nodes_df
    /\ out_csv.written => pc = "done"

\* the run aborted on a table whose first row is fine and whose second is not
C5_Witness ==
    /\ pc = "error" /\ ~out_csv.written
    /\ Len(edges_df) = 2
    /\ Known(nodes_df, edges_df[1].source) /\ Known(nodes_df, edges_df[1].target)
    /\ ~Known(nodes_df, edges_df[2].target)

\* C6: the output has one row per node row, in node-table order, row i
\* holding the two scores of the node whose id is in row i; every
\* reordering of the edge table gives the same output table.
C6_RowsAlignedAndEdgeOrderFree ==
    pc = "done" =>
        /\ Len(out_csv.table) = Len(nodes_df)
        /\ \A i \in DOMAIN nodes_df :
            LET row == out_csv.table[i]
                all == ViewRows(edges_df, "all")
                nr == ViewRows(edges_df, "no_road")
            IN /\ row.id = nodes_df[i]
               /\ row.closeness_all_edges =
                    Div(ReachCount(all, mode, nodes_df[i]),
                        SumDist(all, mode, nodes_df[i]))
               /\ row.closeness_no_road_edges =
                    Div(ReachCount(nr, mode, nodes_df[i]),
                        SumDist(nr, mode, nodes_df[i]))
        /\ \A p \in Perms(Len(edges_df)) :
            MainOutput(nodes_df, [i \in DOMAIN edges_df |-> edges_df[p[i]]], mode)
                = out_csv.table

\* three rows written whose scores differ, from two edges of different types
C6_Witness ==
    /\ pc = "done" /\ Len(nodes_df) = 3 /\ Len(edges_df) = 2
    /\ edges_df[1].type # edges_df[2].type
    /\ out_csv.table[1].closeness_all_edges # out_csv.table[3].closeness_all_edges
    /\ out_csv.table[1].closeness_all_edges # out_csv.table[1].closeness_no_road_edges

\* C7: the no-road view has the vertices of the all-edges view, in the same
\* order, and its edges are the rows whose type is not road, in their
\* relative order, resolved through the same identifier-to-index assignment.
C7_NoRoadViewSharesNodes ==
    pc \in {"built_no_road", "scored_no_road", "done"} =>
        /\ g_no_road.ok
        /\ g_no_road.vs = g_all.vs
        /\ \E f \in [DOMAIN g_no_road.es -> DOMAIN edges_df] :
            /\ \A i, j \in DOMAIN f : i < j => f[i] < f[j]
            /\ \A k \in DOMAIN edges_df :
                (edges_df[k].type # "road") <=> (\E i \in DOMAIN f : f[i] = k)
            /\ \A i \in DOMAIN f :
                /\ g_no_road.es[i] = g_all.es[f[i]]
                /\ g_all.vs[g_no_road.es[i][1]] = edges_df[f[i]].source
                /\ g_all.vs[g_no_road.es[i][2]] = edges_df[f[i]].target

\* a road row before a rail row: the view keeps the second row only
C7_Witness ==
    /\ pc = "built_no_road" /\ Len(edges_df) = 2
    /\ edges_df[1].type = "road" /\ edges_df[2].type = "rail"
    /\ edges_df[1].source # edges_df[2].source
    /\ Len(g_no_road.es) = 1 /\ Len(g_no_road.vs) = 3

\* the rows that add a self-loop or repeat an edge of the table
Redundant ==
    {r \in EdgeRows :
        \/ r.source = r.target /\ Known(nodes_df, r.source)
        \/ \E i \in DOMAIN edges_df :
            edges_df[i].source = r.source /\ edges_df[i].target = r.target}

\* C8: a self-loop or a duplicate of an edge added to the table leaves the
\* graph buildable and every score of the mode unchanged.
C8_LoopsAndDuplicatesChangeNothing ==
    pc = "scored_all" =>
        \A r \in Redundant :
            LET g == build_graph(nodes_df, Append(edges_df, r))
            IN g.ok /\ directed_closeness(g, mode) = closeness_all

\* a path of two edges scored, to which loops and duplicates can be added
C8_Witness ==
    /\ pc = "scored_all" /\ Len(edges_df) = 2
    /\ edges_df[1].target = edges_df[2].source
    /\ edges_df[1].source # edges_df[1].target
    /\ edges_df[2].target \notin {edges_df[1].source, edges_df[1].target}
    /\ <<2, 3>> \in {closeness_all[i] : i \in DOMAIN closeness_all}

-----------------------------------------------------------------------------
(* Claims about call_openai (specification SpecCall) *)

\* the sleeps of attempts 0 .. n-1
Backoff(n) == [i \in 1..n |-> Pow2(i - 1)]

\* a failure the loop may retry: one of five HTTP statuses, or a URL error
RetryableFailure(o) ==
    \/ o.kind = "http" /\ o.status \in {429, 500, 502, 503, 504}
    \/ o.kind = "url"

C9_State ==
    max_retries >= 1 =>
        /\ sent <= max_retries
        /\ cres.err # RuntimeError
        /\ slept = Backoff(attempt)
        /\ cpc = "loop" =>
            /\ attempt < max_retries /\ sent = attempt /\ cres = NoResult
            /\ attempt > 0 => RetryableFailure(last)
        /\ cpc = "returned" =>
            /\ sent = attempt + 1
            /\ last.kind = "ok" /\ cres = Returned(last.text)
        /\ cpc = "raised" =>
            /\ sent = attempt + 1
            /\ last.kind \in {"http", "url", "other"} /\ cres = Raised(last)
            /\ RetryableFailure(last) => sent = max_retries

C9_Step ==
    (max_retries >= 1 /\ cpc = "loop") =>
        /\ sent' = sent + 1
        /\ cpc' = "loop" =>
            /\ attempt < max_retries - 1 /\ RetryableFailure(last')
            /\ slept' = Append(slept, Pow2(attempt)) /\ attempt' = attempt + 1
        /\ (attempt < max_retries - 1 /\ RetryableFailure(last')) => cpc' = "loop"

\* C9: with max_retries >= 1, call_openai sends at most max_retries
\* requests and ends, returning the text of its one successful response or
\* raising the error of its last request; after failed attempt i it sleeps
\* 2^i and retries exactly when i < max_retries - 1 and the failure is an
\* HTTP error with status 429, 500, 502, 503 or 504 or a URL error; the
\* final RuntimeError is never raised.
C9_BoundedRetries ==
    /\ []C9_State
    /\ [][C9_Step]_vars
    /\ <>(cpc \in {"returned", "raised"})

\* every attempt failed retryably: the last error is raised after
\* max_retries requests and max_retries - 1 sleeps
C9_Witness ==
    /\ cpc = "raised" /\ max_retries >= 3 /\ sent = max_retries
    /\ last = HTTPError(503) /\ cres = Raised(last)
    /\ Len(slept) = max_retries - 1 /\ slept[Len(slept)] = Pow2(max_retries - 2)

-----------------------------------------------------------------------------
(* Claims about the classifier's row loop (specification SpecClassify) *)

\* what C10 says of the rows written, the limit apart
C10_Rows ==
    /\ calls <= 2
    /\ Len(f_out) <= Len(in_rows)
    /\ Len(hist) \in {Len(f_out), Len(f_out) + 1}
    /\ \A i \in DOMAIN hist :
        /\ Len(hist[i]) <= 2
        /\ Len(hist[i]) = 2 => hist[i][1] \notin ALLOWED_LABELS
    /\ \A i \in DOMAIN f_out :
        /\ f_out[i].row = in_rows[i]
        /\ f_out[i].wealth_class \in {"Wealthy", "Medium Wealthy", "Poor", "Unknown"}
        /\ Len(hist[i]) \in {1, 2}
        /\ Len(hist[i]) = 1 => hist[i][1] \in ALLOWED_LABELS
        /\ f_out[i].wealth_class = "Unknown" <=>
              (Len(hist[i]) = 2 /\ hist[i][1] \notin ALLOWED_LABELS
                                /\ hist[i][2] \notin ALLOWED_LABELS)
        /\ f_out[i].wealth_class # "Unknown" =>
              f_out[i].wealth_class = hist[i][Len(hist[i])]

\* C10 as stated: ... and at most limit rows are written when a limit is
\* given.
C10_AtMostLimitRows ==
    /\ C10_Rows
    /\ (mpc \in {"done", "aborted"} /\ limit.given) => Len(f_out) <= limit.n

\* C10 amended: every row written has wealth_class in {Wealthy, Medium
\* Wealthy, Poor, Unknown}; call_openai is invoked at most twice per row,
\* the second time only when the first label is not allowed; Unknown is
\* written exactly when both labels are not allowed; rows are written in
\* input order; when a limit is given at most max(limit, 0) rows are
\* written (a negative limit writes none).
C10_AtMostLimitRowsOrNone ==
    /\ C10_Rows
    /\ limit.given => Len(f_out) <= (IF limit.n < 0 THEN 0 ELSE limit.n)

\* the loop stopped by the limit after one of two rows, that row written
\* Unknown after two calls
C10_Witness ==
    /\ mpc = "done" /\ limit.given /\ limit.n = 1 /\ Len(in_rows) = 2
    /\ Len(f_out) = 1 /\ calls = 2
    /\ f_out[1].wealth_class = "Unknown" /\ hist[1] = <<"wealthy", "Unknown">>

====
